---- MODULE Spec2Model ----
(***************************************************************************)
(* Model of backend/rag.py: the chunker (_split_text_into_chunks), the     *)
(* index store (build_or_load_index) and the retriever                     *)
(* (_retrieve_relevant_chunks).                                            *)
(*                                                                         *)
(* A Python str is a sequence of one-character strings; a list is a        *)
(* sequence; an optional value is None or Some(v).                         *)
(*                                                                         *)
(* Three specifications share the module: SpecChunk runs the chunker on    *)
(* every small input, SpecIndex runs two threads through                   *)
(* build_or_load_index, SpecRetrieve runs the retriever on every small     *)
(* index.  Each leaves the variables of the other two at rest.             *)
(***************************************************************************)
EXTENDS Integers, Sequences, FiniteSets, TLC

VARIABLES
    \* ---- chunker, one run of _split_text_into_chunks -------------------
    text,           \* argument text
    max_chars,      \* argument max_chars
    overlap,        \* argument overlap
    words,          \* rag.py:46
    wi,             \* position of the for loop of rag.py:51 (next word)
    chunks,         \* rag.py:47
    current,        \* rag.py:48
    current_len,    \* rag.py:50
    closed,         \* the buffer joined into the chunk of the last split
                    \* (never empty, rag.py:54; <<>>: no split yet)
    seed,           \* the buffer the last split left behind
    cpc,            \* "loop" | "done" | "off"
    \* ---- index store, threads calling build_or_load_index --------------
    knowledge_exists,   \* KNOWLEDGE_PATH.exists()
    index_file,         \* INDEX_PATH: None (no file) or Some(content)
    _index_cache,       \* rag.py:25: None or Some(list of Chunk)
    pc,                 \* per thread: the line of rag.py it is at
    force_rebuild,      \* per thread: the argument of the call
    raw,                \* per thread: rag.py:105
    index,              \* per thread: rag.py:116
    woff,               \* per thread: file position of the write of rag.py:126
    result,             \* per thread: the returned list or the raised error
    \* ---- history of the calls (not program state) ----------------------
    calls,              \* per thread: calls made so far
    did,                \* per thread: what the current call has done
    cold,               \* per thread: no cache and no index file at the call
    modified,           \* per thread: the call changed the file or the cache
    later,              \* per thread: the call began after a successful return
    success_seen,       \* some call has returned successfully
    \* ---- retriever, one run of _retrieve_relevant_chunks ---------------
    k,                  \* argument k
    r_index,            \* rag.py:134, the index build_or_load_index returned
    query_emb,          \* rag.py:135
    scored,             \* rag.py:137
    top_chunks,         \* rag.py:142
    rpc                 \* "l137" | "l141" | "l142" | "done" | "off"

vars_chunk == <<text, max_chars, overlap, words, wi, chunks, current,
                current_len, closed, seed, cpc>>

vars_index == <<knowledge_exists, index_file, _index_cache, pc, force_rebuild,
                raw, index, woff, result, calls, did, cold, modified, later,
                success_seen>>

vars_retr == <<k, r_index, query_emb, scored, top_chunks, rpc>>

vars == <<vars_chunk, vars_index, vars_retr>>

\* Optional values: None, or Some(v) holding v
None == <<>>
Some(v) == <<v>>

Threads == {"t1", "t2"}

NoResult == [status |-> "none", value |-> <<>>]

\* the variables of a part of the program that a specification leaves out
IndexOff ==
    /\ knowledge_exists = FALSE
    /\ index_file = None
    /\ _index_cache = None
    /\ pc = [t \in Threads |-> "off"]
    /\ force_rebuild = [t \in Threads |-> FALSE]
    /\ raw = [t \in Threads |-> <<>>]
    /\ index = [t \in Threads |-> <<>>]
    /\ woff = [t \in Threads |-> 0]
    /\ result = [t \in Threads |-> NoResult]
    /\ calls = [t \in Threads |-> 0]
    /\ did = [t \in Threads |-> {}]
    /\ cold = [t \in Threads |-> FALSE]
    /\ modified = [t \in Threads |-> FALSE]
    /\ later = [t \in Threads |-> FALSE]
    /\ success_seen = FALSE

RetrOff ==
    /\ k = 0 /\ r_index = <<>> /\ query_emb = <<>>
    /\ scored = <<>> /\ top_chunks = <<>>
    /\ rpc = "off"

ChunkOff ==
    /\ text = <<>> /\ max_chars = 1 /\ overlap = 0
    /\ words = <<>> /\ wi = 1 /\ chunks = <<>>
    /\ current = <<>> /\ current_len = 0
    /\ closed = <<>> /\ seed = <<>>
    /\ cpc = "off"


-----------------------------------------------------------------------------
(* Bounds of the chunker inputs *)
MaxTextLen == 7
MaxMaxChars == 5
MaxOverlap == 4

Alphabet == {"a", "b", " "}

\* all sequences over S of length at most n
SeqUpTo(S, n) == UNION {[1..m -> S] : m \in 0..n}

-----------------------------------------------------------------------------
(* str helpers *)

IsSpace(c) == c \in {" ", "\n", "\t"}

\* str.split() without arguments: maximal runs of non-whitespace, in order
split(s) ==
    LET n      == Len(s)
        starts == {i \in 1..n : ~IsSpace(s[i]) /\ (i = 1 \/ IsSpace(s[i-1]))}
        stops  == {j \in 1..n : IsSpace(s[j])} \cup {n + 1}
        stop(i) == CHOOSE j \in stops : j > i /\ \A m \in stops : m > i => j <= m
        nth(r) == CHOOSE i \in starts : Cardinality({j \in starts : j < i}) = r - 1
    IN  [r \in 1..Cardinality(starts) |-> SubSeq(s, nth(r), stop(nth(r)) - 1)]

\* " ".join(ws)
RECURSIVE join(_)
join(ws) ==
    IF ws = <<>> THEN <<>>
    ELSE IF Len(ws) = 1 THEN ws[1]
    ELSE join(SubSeq(ws, 1, Len(ws) - 1)) \o <<" ">> \o ws[Len(ws)]

\* str.strip()
strip(s) ==
    LET keep == {i \in 1..Len(s) : ~IsSpace(s[i])}
    IN  IF keep = {} THEN <<>>
        ELSE LET lo == CHOOSE i \in keep : \A j \in keep : i <= j
                 hi == CHOOSE i \in keep : \A j \in keep : i >= j
             IN  SubSeq(s, lo, hi)

\* sum(len(w) + 1 for w in ws)
RECURSIVE sum_len_plus_1(_)
sum_len_plus_1(ws) ==
    IF ws = <<>> THEN 0 ELSE Len(ws[1]) + 1 + sum_len_plus_1(Tail(ws))

-----------------------------------------------------------------------------
(* _split_text_into_chunks, rag.py:41-75 *)

\* mutants of the overlap loop: append instead of insert(0, ...); stop one
\* word early (the seed stays below overlap)
RECURSIVE overlap_loop_append(_, _, _)
overlap_loop_append(cur, ow, ov) ==
    IF cur # <<>> /\ sum_len_plus_1(ow) < ov
    THEN overlap_loop_append(SubSeq(cur, 1, Len(cur) - 1), ow \o <<cur[Len(cur)]>>, ov)
    ELSE ow

RECURSIVE overlap_loop_below(_, _, _)
overlap_loop_below(cur, ow, ov) ==
    IF cur # <<>> /\ sum_len_plus_1(<<cur[Len(cur)]>> \o ow) < ov
    THEN overlap_loop_below(SubSeq(cur, 1, Len(cur) - 1), <<cur[Len(cur)]>> \o ow, ov)
    ELSE ow

\* the while loop of rag.py:61-62; cur is current, ow is overlap_words
RECURSIVE overlap_loop(_, _, _)
overlap_loop(cur, ow, ov) ==
    IF cur # <<>> /\ sum_len_plus_1(ow) < ov
    THEN overlap_loop(SubSeq(cur, 1, Len(cur) - 1), <<cur[Len(cur)]>> \o ow, ov)
    ELSE ow

\* rag.py:53
add_len_of(word, cur) == Len(word) + (IF cur # <<>> THEN 1 ELSE 0)

\* rag.py:54
must_split(st, word, mc) ==
    st.current_len + add_len_of(word, st.current) > mc /\ st.current # <<>>

\* mutant: the last word is kept although overlap is 0
next_buffer_keep(cur, ov) ==
    IF ov > 0 THEN overlap_loop(cur, <<>>, ov) ELSE <<cur[Len(cur)]>>

\* rag.py:59-67: the buffer that follows a split
next_buffer(cur, ov) == IF ov > 0 THEN overlap_loop(cur, <<>>, ov) ELSE <<>>

\* one iteration of the for loop, rag.py:51-70
\* st = [chunks, current, current_len]
loop_body(st, word, mc, ov) ==
    LET add_len == add_len_of(word, st.current)
        s1 == IF must_split(st, word, mc)
              THEN LET nb == next_buffer(st.current, ov)
                   IN  [chunks      |-> Append(st.chunks, strip(join(st.current))),
                        current     |-> nb,
                        current_len |-> IF ov > 0 THEN sum_len_plus_1(nb) ELSE 0]
              ELSE st
    IN  [chunks      |-> s1.chunks,
         current     |-> Append(s1.current, word),
         current_len |-> s1.current_len + add_len]

\* mutant: the trailing buffer is not emitted
finish_drop(st) == st.chunks

\* rag.py:72-75
finish(st) ==
    IF st.current # <<>> THEN Append(st.chunks, strip(join(st.current)))
    ELSE st.chunks

RECURSIVE for_loop(_, _, _, _, _)
for_loop(st, ws, i, mc, ov) ==
    IF i > Len(ws) THEN st
    ELSE for_loop(loop_body(st, ws[i], mc, ov), ws, i + 1, mc, ov)

_split_text_into_chunks(t, mc, ov) ==
    finish(for_loop([chunks |-> <<>>, current |-> <<>>, current_len |-> 0],
                    split(t), 1, mc, ov))

-----------------------------------------------------------------------------
(* The chunker as a state machine: one action per loop iteration *)

InitChunk ==
    /\ text \in SeqUpTo(Alphabet, MaxTextLen)
    /\ max_chars \in 1..MaxMaxChars
    /\ overlap \in 0..MaxOverlap
    /\ words = split(text)
    /\ wi = 1
    /\ chunks = <<>>
    /\ current = <<>>
    /\ current_len = 0
    /\ closed = <<>>
    /\ seed = <<>>
    /\ cpc = "loop"
    /\ IndexOff
    /\ RetrOff

ChunkState == [chunks |-> chunks, current |-> current, current_len |-> current_len]

\* an iteration that appends the word to the open buffer
ChunkAppend ==
    /\ cpc = "loop" /\ wi <= Len(words)
    /\ ~must_split(ChunkState, words[wi], max_chars)
    /\ LET st == loop_body(ChunkState, words[wi], max_chars, overlap)
       IN  /\ chunks' = st.chunks
           /\ current' = st.current
           /\ current_len' = st.current_len
    /\ wi' = wi + 1
    /\ UNCHANGED <<text, max_chars, overlap, words, closed, seed, cpc>>
    /\ UNCHANGED <<vars_index, vars_retr>>

\* an iteration that closes the chunk first (rag.py:54-67)
ChunkSplit ==
    /\ cpc = "loop" /\ wi <= Len(words)
    /\ must_split(ChunkState, words[wi], max_chars)
    /\ LET st == loop_body(ChunkState, words[wi], max_chars, overlap)
       IN  /\ chunks' = st.chunks
           /\ current' = st.current
           /\ current_len' = st.current_len
    /\ closed' = current
    /\ seed' = next_buffer(current, overlap)
    /\ wi' = wi + 1
    /\ UNCHANGED <<text, max_chars, overlap, words, cpc>>
    /\ UNCHANGED <<vars_index, vars_retr>>

\* rag.py:72-75
ChunkFinish ==
    /\ cpc = "loop" /\ wi > Len(words)
    /\ chunks' = finish(ChunkState)
    /\ cpc' = "done"
    /\ UNCHANGED <<text, max_chars, overlap, words, wi, current, current_len,
                   closed, seed>>
    /\ UNCHANGED <<vars_index, vars_retr>>

NextChunk == ChunkAppend \/ ChunkSplit \/ ChunkFinish

SpecChunk == InitChunk /\ [][NextChunk]_vars

-----------------------------------------------------------------------------
(* Index store, rag.py:95-130 *)

\* calls made in all
MaxCalls == 3

\* rag.py:41, the defaults build_or_load_index chunks with (rag.py:114)
DEFAULT_MAX_CHARS == 800
DEFAULT_OVERLAP == 100

\* knowledge.txt: three words, long enough for two chunks
KnowledgeWord1Len == 600
KnowledgeWord2Len == 150
KnowledgeWord3Len == 100

Word(c, n) == [i \in 1..n |-> c]

KnowledgeText ==
    Word("a", KnowledgeWord1Len) \o <<" ">> \o Word("b", KnowledgeWord2Len)
        \o <<"\n">> \o Word("c", KnowledgeWord3Len)

\* a str held in a record: the characters as one string value
RECURSIVE str(_)
str(cs) ==
    IF cs = <<>> THEN ""
    ELSE IF Len(cs) = 1 THEN cs[1]
    ELSE LET h == Len(cs) \div 2
         IN  str(SubSeq(cs, 1, h)) \o str(SubSeq(cs, h + 1, Len(cs)))

\* rag.py:113-114: the chunks of knowledge.txt
chunks_text ==
    LET cs == _split_text_into_chunks(KnowledgeText, DEFAULT_MAX_CHARS, DEFAULT_OVERLAP)
    IN  [i \in 1..Len(cs) |-> str(cs[i])]

\* rag.py:78-83: the vectors the provider may answer with for a text (the
\* call may also fail, see EmbedFail)
ProviderVectors(t) == {<<1, Len(t) % 3>>, <<2, Len(t) % 3>>}

\* rag.py:28-32
Chunk(id, t, embedding) == [id |-> id, text |-> t, embedding |-> embedding]

\* JSON text as a sequence of tokens
TokOpen == [tok |-> "["]
TokClose == [tok |-> "]"]
TokNul == [tok |-> "NUL"]
TokItem(c) == [tok |-> "{}", id |-> c.id, text |-> c.text, embedding |-> c.embedding]

\* rag.py:123-126: json.dumps of the list of dicts
json_dumps(idx) == <<TokOpen>> \o [i \in 1..Len(idx) |-> TokItem(idx[i])] \o <<TokClose>>

\* mutant: a parser that accepts a truncated text and keeps the items read
json_loads_lenient(toks) ==
    LET items == {i \in 1..Len(toks) : toks[i].tok = "{}"}
    IN  [ok |-> TRUE,
         value |-> [i \in 1..Cardinality(items) |-> toks[i + 1]]]

\* rag.py:105: json.loads; fails on anything but a complete list
json_loads(toks) ==
    IF /\ Len(toks) >= 2
       /\ toks[1] = TokOpen
       /\ toks[Len(toks)] = TokClose
       /\ \A i \in 2..(Len(toks) - 1) : toks[i].tok = "{}"
    THEN [ok |-> TRUE, value |-> SubSeq(toks, 2, Len(toks) - 1)]
    ELSE [ok |-> FALSE, value |-> <<>>]

\* rag.py:106-109
chunks_of_raw(r) ==
    [i \in 1..Len(r) |-> Chunk(r[i].id, r[i].text, r[i].embedding)]

\* a write of data at file position off (rag.py:126, write_text)
WriteAt(content, off, data) ==
    LET n == IF Len(content) > off + Len(data) THEN Len(content) ELSE off + Len(data)
    IN  [i \in 1..n |->
            IF i > off /\ i <= off + Len(data) THEN data[i - off]
            ELSE IF i <= Len(content) THEN content[i]
            ELSE TokNul]

\* an index left in index.json by an earlier run of the program
PriorIndex ==
    [i \in 1..Len(chunks_text) |->
        Chunk(i - 1, chunks_text[i], <<1, Len(chunks_text[i]) % 3>>)]

\* the module is imported: no cache (rag.py:25); the files are as an earlier
\* run left them
InitIndex ==
    /\ knowledge_exists \in BOOLEAN
    /\ index_file \in {None, Some(json_dumps(PriorIndex))}
    /\ _index_cache = None
    /\ pc = [t \in Threads |-> "idle"]
    /\ force_rebuild = [t \in Threads |-> FALSE]
    /\ raw = [t \in Threads |-> <<>>]
    /\ index = [t \in Threads |-> <<>>]
    /\ woff = [t \in Threads |-> 0]
    /\ result = [t \in Threads |-> NoResult]
    /\ calls = [t \in Threads |-> 0]
    /\ did = [t \in Threads |-> {}]
    /\ cold = [t \in Threads |-> FALSE]
    /\ modified = [t \in Threads |-> FALSE]
    /\ later = [t \in Threads |-> FALSE]
    /\ success_seen = FALSE
    /\ ChunkOff
    /\ RetrOff

\* history kept by every step of a call of thread t: what the call did, and
\* whether the step changed the index file or the cache
Note(t, what) ==
    /\ did' = [did EXCEPT ![t] = @ \cup what]
    /\ modified' = [modified EXCEPT ![t] =
                        @ \/ index_file' # index_file \/ _index_cache' # _index_cache]

RECURSIVE SumOver(_, _)
SumOver(f, S) ==
    IF S = {} THEN 0
    ELSE LET x == CHOOSE x \in S : TRUE IN f[x] + SumOver(f, S \ {x})

TotalCalls == SumOver(calls, Threads)

\* a caller enters build_or_load_index(force_rebuild = fr)
Call(t, fr) ==
    /\ pc[t] = "idle" /\ TotalCalls < MaxCalls
    /\ pc' = [pc EXCEPT ![t] = "l101"]
    /\ force_rebuild' = [force_rebuild EXCEPT ![t] = fr]
    /\ calls' = [calls EXCEPT ![t] = @ + 1]
    /\ cold' = [cold EXCEPT ![t] = (index_file = None /\ _index_cache = None)]
    /\ modified' = [modified EXCEPT ![t] = FALSE]
    /\ later' = [later EXCEPT ![t] = success_seen]
    /\ did' = [did EXCEPT ![t] = {}]
    /\ UNCHANGED <<knowledge_exists, index_file, _index_cache, raw, index, woff,
                   result, success_seen>>
    /\ UNCHANGED <<vars_chunk, vars_retr>>

\* rag.py:101-102, the cache is there and no rebuild is forced
CacheHit(t) ==
    /\ pc[t] = "l101"
    /\ _index_cache # None /\ ~force_rebuild[t]
    /\ result' = [result EXCEPT ![t] = [status |-> "ok", value |-> _index_cache[1]]]
    /\ pc' = [pc EXCEPT ![t] = "returned"]
    /\ success_seen' = TRUE
    /\ UNCHANGED <<knowledge_exists, index_file, _index_cache, force_rebuild, raw,
                   index, woff, calls, cold, later>>
    /\ Note(t, {"cachehit"})
    /\ UNCHANGED <<vars_chunk, vars_retr>>

\* rag.py:101, otherwise
CacheMiss(t) ==
    /\ pc[t] = "l101"
    /\ ~(_index_cache # None /\ ~force_rebuild[t])
    /\ pc' = [pc EXCEPT ![t] = "l104"]
    /\ UNCHANGED <<knowledge_exists, index_file, _index_cache, force_rebuild, raw,
                   index, woff, result, calls, cold, later, success_seen>>
    /\ Note(t, {})
    /\ UNCHANGED <<vars_chunk, vars_retr>>

\* rag.py:104
CheckFile(t) ==
    /\ pc[t] = "l104"
    /\ pc' = [pc EXCEPT ![t] =
                IF index_file # None /\ ~force_rebuild[t] THEN "l105" ELSE "l113"]
    /\ UNCHANGED <<knowledge_exists, index_file, _index_cache, force_rebuild, raw,
                   index, woff, result, calls, cold, later, success_seen>>
    /\ Note(t, {})
    /\ UNCHANGED <<vars_chunk, vars_retr>>

\* rag.py:105: read_text and json.loads
ReadFile(t) ==
    /\ pc[t] = "l105"
    /\ LET parsed == json_loads(index_file[1])
       IN  IF parsed.ok
           THEN /\ raw' = [raw EXCEPT ![t] = parsed.value]
                /\ pc' = [pc EXCEPT ![t] = "l106"]
                /\ UNCHANGED result
           ELSE /\ result' = [result EXCEPT ![t] =
                                [status |-> "JSONDecodeError", value |-> <<>>]]
                /\ pc' = [pc EXCEPT ![t] = "raised"]
                /\ UNCHANGED raw
    /\ UNCHANGED <<knowledge_exists, index_file, _index_cache, force_rebuild,
                   index, woff, calls, cold, later, success_seen>>
    /\ Note(t, {"load"})
    /\ UNCHANGED <<vars_chunk, vars_retr>>

\* rag.py:106-110
AssignLoaded(t) ==
    /\ pc[t] = "l106"
    /\ _index_cache' = Some(chunks_of_raw(raw[t]))
    /\ result' = [result EXCEPT ![t] = [status |-> "ok", value |-> chunks_of_raw(raw[t])]]
    /\ pc' = [pc EXCEPT ![t] = "returned"]
    /\ success_seen' = TRUE
    /\ UNCHANGED <<knowledge_exists, index_file, force_rebuild, raw, index, woff,
                   calls, cold, later>>
    /\ Note(t, {"cache"})
    /\ UNCHANGED <<vars_chunk, vars_retr>>

\* mutant: the not-found path drops the cache before raising
KnowledgeMissingClearing(t) ==
    /\ pc[t] = "l113"
    /\ ~knowledge_exists
    /\ _index_cache' = None
    /\ result' = [result EXCEPT ![t] = [status |-> "FileNotFoundError", value |-> <<>>]]
    /\ pc' = [pc EXCEPT ![t] = "raised"]
    /\ UNCHANGED <<knowledge_exists, index_file, force_rebuild, raw,
                   index, woff, calls, cold, later, success_seen>>
    /\ Note(t, {"knowledge"})
    /\ UNCHANGED <<vars_chunk, vars_retr>>

\* rag.py:113 with rag.py:36-37: knowledge.txt is missing
KnowledgeMissing(t) ==
    /\ pc[t] = "l113"
    /\ ~knowledge_exists
    /\ result' = [result EXCEPT ![t] = [status |-> "FileNotFoundError", value |-> <<>>]]
    /\ pc' = [pc EXCEPT ![t] = "raised"]
    /\ UNCHANGED <<knowledge_exists, index_file, _index_cache, force_rebuild, raw,
                   index, woff, calls, cold, later, success_seen>>
    /\ Note(t, {"knowledge"})
    /\ UNCHANGED <<vars_chunk, vars_retr>>

\* rag.py:113-117: the text is read and chunked, the index starts empty
LoadKnowledge(t) ==
    /\ pc[t] = "l113"
    /\ knowledge_exists
    /\ index' = [index EXCEPT ![t] = <<>>]
    /\ pc' = [pc EXCEPT ![t] = "l118"]
    /\ UNCHANGED <<knowledge_exists, index_file, _index_cache, force_rebuild, raw,
                   woff, result, calls, cold, later, success_seen>>
    /\ Note(t, {"knowledge"})
    /\ UNCHANGED <<vars_chunk, vars_retr>>

\* mutant: the cache is filled chunk by chunk
EmbedOkEager(t) ==
    /\ pc[t] = "l118"
    /\ Len(index[t]) < Len(chunks_text)
    /\ LET i == Len(index[t])
       IN  \E emb \in ProviderVectors(chunks_text[i + 1]) :
              /\ index' = [index EXCEPT ![t] = Append(@, Chunk(i, chunks_text[i + 1], emb))]
              /\ _index_cache' = Some(Append(index[t], Chunk(i, chunks_text[i + 1], emb)))
    /\ UNCHANGED <<knowledge_exists, index_file, pc, force_rebuild, raw,
                   woff, result, calls, cold, later, success_seen>>
    /\ Note(t, {"embed"})
    /\ UNCHANGED <<vars_chunk, vars_retr>>

\* rag.py:118-120: one iteration, the provider answers
EmbedOk(t) ==
    /\ pc[t] = "l118"
    /\ Len(index[t]) < Len(chunks_text)
    /\ LET i == Len(index[t])
       IN  \E emb \in ProviderVectors(chunks_text[i + 1]) :
              index' = [index EXCEPT ![t] = Append(@, Chunk(i, chunks_text[i + 1], emb))]
    /\ UNCHANGED <<knowledge_exists, index_file, _index_cache, pc, force_rebuild, raw,
                   woff, result, calls, cold, later, success_seen>>
    /\ Note(t, {"embed"})
    /\ UNCHANGED <<vars_chunk, vars_retr>>

\* rag.py:119: the provider call raises, the exception leaves the function
EmbedFail(t) ==
    /\ pc[t] = "l118"
    /\ Len(index[t]) < Len(chunks_text)
    /\ result' = [result EXCEPT ![t] = [status |-> "ProviderError", value |-> <<>>]]
    /\ pc' = [pc EXCEPT ![t] = "raised"]
    /\ UNCHANGED <<knowledge_exists, index_file, _index_cache, force_rebuild, raw,
                   index, woff, calls, cold, later, success_seen>>
    /\ Note(t, {"embed"})
    /\ UNCHANGED <<vars_chunk, vars_retr>>

\* rag.py:126, write_text: the file is opened for writing, which creates or
\* truncates it
WriteOpen(t) ==
    /\ pc[t] = "l118"
    /\ Len(index[t]) = Len(chunks_text)
    /\ index_file' = Some(<<>>)
    /\ woff' = [woff EXCEPT ![t] = 0]
    /\ pc' = [pc EXCEPT ![t] = "l126"]
    /\ UNCHANGED <<knowledge_exists, _index_cache, force_rebuild, raw, index,
                   result, calls, cold, later, success_seen>>
    /\ Note(t, {"write"})
    /\ UNCHANGED <<vars_chunk, vars_retr>>

\* rag.py:126, write_text: a first part of the text reaches the file
WriteFlush(t) ==
    /\ pc[t] = "l126"
    /\ woff[t] = 0
    /\ \E n \in 1..(Len(json_dumps(index[t])) - 1) :
          /\ index_file' = Some(WriteAt(index_file[1], 0,
                                        SubSeq(json_dumps(index[t]), 1, n)))
          /\ woff' = [woff EXCEPT ![t] = n]
    /\ UNCHANGED <<knowledge_exists, _index_cache, pc, force_rebuild, raw, index,
                   result, calls, cold, later, success_seen>>
    /\ Note(t, {"write"})
    /\ UNCHANGED <<vars_chunk, vars_retr>>

\* rag.py:126, write_text: the rest of the text is written, the file closed
WriteClose(t) ==
    /\ pc[t] = "l126"
    /\ LET data == json_dumps(index[t])
       IN  index_file' = Some(WriteAt(index_file[1], woff[t],
                                      SubSeq(data, woff[t] + 1, Len(data))))
    /\ woff' = [woff EXCEPT ![t] = 0]
    /\ pc' = [pc EXCEPT ![t] = "l128"]
    /\ UNCHANGED <<knowledge_exists, _index_cache, force_rebuild, raw, index,
                   result, calls, cold, later, success_seen>>
    /\ Note(t, {"write"})
    /\ UNCHANGED <<vars_chunk, vars_retr>>

\* rag.py:128-130
AssignBuilt(t) ==
    /\ pc[t] = "l128"
    /\ _index_cache' = Some(index[t])
    /\ result' = [result EXCEPT ![t] = [status |-> "ok", value |-> index[t]]]
    /\ pc' = [pc EXCEPT ![t] = "returned"]
    /\ success_seen' = TRUE
    /\ UNCHANGED <<knowledge_exists, index_file, force_rebuild, raw, index, woff,
                   calls, cold, later>>
    /\ Note(t, {"cache"})
    /\ UNCHANGED <<vars_chunk, vars_retr>>

\* the caller has the list or the exception; the frame of the call is gone
Return(t) ==
    /\ pc[t] \in {"returned", "raised"}
    /\ pc' = [pc EXCEPT ![t] = "idle"]
    /\ raw' = [raw EXCEPT ![t] = <<>>]
    /\ index' = [index EXCEPT ![t] = <<>>]
    /\ result' = [result EXCEPT ![t] = NoResult]
    /\ did' = [did EXCEPT ![t] = {}]
    /\ cold' = [cold EXCEPT ![t] = FALSE]
    /\ modified' = [modified EXCEPT ![t] = FALSE]
    /\ later' = [later EXCEPT ![t] = FALSE]
    /\ UNCHANGED <<knowledge_exists, index_file, _index_cache, force_rebuild, woff,
                   calls, success_seen>>
    /\ UNCHANGED <<vars_chunk, vars_retr>>

NextIndex ==
    \E t \in Threads :
        \/ \E fr \in BOOLEAN : Call(t, fr)
        \/ CacheHit(t)
        \/ CacheMiss(t)
        \/ CheckFile(t)
        \/ ReadFile(t)
        \/ AssignLoaded(t)
        \/ KnowledgeMissing(t)
        \/ LoadKnowledge(t)
        \/ EmbedOk(t)
        \/ EmbedFail(t)
        \/ WriteOpen(t)
        \/ WriteFlush(t)
        \/ WriteClose(t)
        \/ AssignBuilt(t)
        \/ Return(t)

SpecIndex == InitIndex /\ [][NextIndex]_vars

-----------------------------------------------------------------------------
(* Retriever, rag.py:86-92 and rag.py:133-143 *)

\* Bounds of the retriever inputs
MaxIndexLen == 3
MaxK == 4

\* the embeddings tried: two components, the zero vector among them
Vectors == {<<x, y>> : x \in -1..1, y \in 0..1}

RECURSIVE sum_seq(_)
sum_seq(xs) == IF xs = <<>> THEN 0 ELSE xs[1] + sum_seq(Tail(xs))

\* rag.py:86-92.  The float dot / (sqrt(na) * sqrt(nb)) is kept exact, as the
\* pair [num, den] that stands for num / sqrt(den); 0.0 is [0, 1].
_cosine_similarity(a, b) ==
    LET n      == IF Len(a) < Len(b) THEN Len(a) ELSE Len(b)
        dot    == sum_seq([i \in 1..n |-> a[i] * b[i]])
        norm_a2 == sum_seq([i \in 1..Len(a) |-> a[i] * a[i]])
        norm_b2 == sum_seq([i \in 1..Len(b) |-> b[i] * b[i]])
    IN  IF norm_a2 = 0 \/ norm_b2 = 0 THEN [num |-> 0, den |-> 1]
        ELSE [num |-> dot, den |-> norm_a2 * norm_b2]

\* x < y for two similarities
SignedSquare(n) == IF n < 0 THEN -(n * n) ELSE n * n
sim_less(x, y) == SignedSquare(x.num) * y.den < SignedSquare(y.num) * x.den

\* mutant: sort without reverse = True
RECURSIVE insert_ascending(_, _)
insert_ascending(sorted, e) ==
    IF sorted = <<>> THEN <<e>>
    ELSE IF sim_less(e[2], sorted[1][2]) THEN <<e>> \o sorted
    ELSE <<sorted[1]>> \o insert_ascending(Tail(sorted), e)

\* rag.py:141: list.sort(key, reverse = True) is stable; e goes behind every
\* entry whose score is not below its own
RECURSIVE insert_descending(_, _)
insert_descending(sorted, e) ==
    IF sorted = <<>> THEN <<e>>
    ELSE IF sim_less(sorted[1][2], e[2]) THEN <<e>> \o sorted
    ELSE <<sorted[1]>> \o insert_descending(Tail(sorted), e)

RECURSIVE sort_by_score(_)
sort_by_score(xs) ==
    IF xs = <<>> THEN <<>>
    ELSE insert_descending(sort_by_score(SubSeq(xs, 1, Len(xs) - 1)), xs[Len(xs)])

\* mutant: one entry too many
slice_to_off_by_one(xs, n) == SubSeq(xs, 1, IF n + 1 < Len(xs) THEN n + 1 ELSE Len(xs))

\* rag.py:142: xs[:n]
slice_to(xs, n) ==
    IF n >= 0 THEN SubSeq(xs, 1, IF n < Len(xs) THEN n ELSE Len(xs))
    ELSE SubSeq(xs, 1, Len(xs) + n)

\* the indexes tried: chunk i has id i - 1
TestIndexes ==
    UNION {[1..n -> Vectors] : n \in 0..MaxIndexLen}

InitRetrieve ==
    /\ k \in -1..MaxK
    /\ \E es \in TestIndexes :
          r_index = [i \in 1..Len(es) |->
                        [id |-> i - 1, text |-> "chunk", embedding |-> es[i]]]
    /\ query_emb \in Vectors
    /\ scored = <<>>
    /\ top_chunks = <<>>
    /\ rpc = "l137"
    /\ ChunkOff
    /\ IndexOff

\* rag.py:137-139
Score ==
    /\ rpc = "l137"
    /\ scored' = [i \in 1..Len(r_index) |->
                    <<r_index[i], _cosine_similarity(query_emb, r_index[i].embedding)>>]
    /\ rpc' = "l141"
    /\ UNCHANGED <<k, r_index, query_emb, top_chunks>>
    /\ UNCHANGED <<vars_chunk, vars_index>>

\* rag.py:141
Sort ==
    /\ rpc = "l141"
    /\ scored' = sort_by_score(scored)
    /\ rpc' = "l142"
    /\ UNCHANGED <<k, r_index, query_emb, top_chunks>>
    /\ UNCHANGED <<vars_chunk, vars_index>>

\* rag.py:142-143
Slice ==
    /\ rpc = "l142"
    /\ top_chunks' = [i \in 1..Len(slice_to(scored, k)) |-> slice_to(scored, k)[i][1]]
    /\ rpc' = "done"
    /\ UNCHANGED <<k, r_index, query_emb, scored>>
    /\ UNCHANGED <<vars_chunk, vars_index>>

NextRetrieve == Score \/ Sort \/ Slice

SpecRetrieve == InitRetrieve /\ [][NextRetrieve]_vars

-----------------------------------------------------------------------------
(* Properties of the retriever *)

Range(f) == {f[i] : i \in DOMAIN f}

Sim(c) == _cosine_similarity(query_emb, c.embedding)

\* C6: for k > 0 the retriever returns exactly min(k, index size) chunks,
\* all different chunks of the index, in order of non-increasing similarity
\* to the query embedding, and no chunk left out is strictly more similar
\* than a returned one.
C6_TopK ==
    (rpc = "done" /\ k > 0) =>
        /\ Len(top_chunks) = (IF k < Len(r_index) THEN k ELSE Len(r_index))
        /\ Len(top_chunks) <= k
        /\ \A i \in 1..Len(top_chunks) : top_chunks[i] \in Range(r_index)
        /\ \A i, j \in 1..Len(top_chunks) : i # j => top_chunks[i] # top_chunks[j]
        /\ \A i, j \in 1..Len(top_chunks) :
              i < j => ~sim_less(Sim(top_chunks[i]), Sim(top_chunks[j]))
        /\ \A c \in Range(r_index) \ Range(top_chunks) :
              \A r \in Range(top_chunks) : ~sim_less(Sim(r), Sim(c))

\* three chunks stored in increasing order of similarity, the best two asked
\* for
C6_Witness ==
    /\ rpc = "done" /\ k = 2
    /\ Len(r_index) = 3
    /\ sim_less(Sim(r_index[1]), Sim(r_index[2]))
    /\ sim_less(Sim(r_index[2]), Sim(r_index[3]))
    /\ top_chunks = <<r_index[3], r_index[2]>>

-----------------------------------------------------------------------------
(* Properties of the index store *)

InCall(t) == pc[t] \notin {"idle", "off"}

\* one chunk for every chunk of the Chunker, in order, each with an embedding
\* the provider gave for its text
IsFullIndex(idx) ==
    /\ Len(idx) = Len(chunks_text)
    /\ \A i \in 1..Len(idx) :
          /\ idx[i].id = i - 1
          /\ idx[i].text = chunks_text[i]
          /\ idx[i].embedding \in ProviderVectors(chunks_text[i])

\* C1: of two concurrent first-time calls with force_rebuild = False (no
\* cache and no index file when each began) only one runs the embedding calls
\* and only one writes the index file.
C1_BuildOnce ==
    \A t, u \in Threads :
        (/\ t # u /\ InCall(t) /\ InCall(u)
         /\ cold[t] /\ cold[u]
         /\ ~force_rebuild[t] /\ ~force_rebuild[u])
        => /\ ~("embed" \in did[t] /\ "embed" \in did[u])
           /\ ~("write" \in did[t] /\ "write" \in did[u])

\* C2: no call returns a partially populated index, and none is ever cached:
\* every returned or cached index is a full index of the knowledge text.
C2_NoPartialIndex ==
    /\ \A t \in Threads : pc[t] = "returned" =>
          /\ result[t].status = "ok"
          /\ IsFullIndex(result[t].value)
    /\ _index_cache # None => IsFullIndex(_index_cache[1])

\* a call returned the index it loaded from the file that another caller is
\* now in the middle of writing
C2_Witness ==
    \E t, u \in Threads :
        /\ t # u
        /\ pc[t] = "returned" /\ "load" \in did[t]
        /\ pc[u] = "l126" /\ woff[u] > 0
        /\ json_loads(index_file[1]).ok = FALSE

\* C3: a call that ends in a provider error has changed neither the index
\* file nor the cache, and hands the caller the error, not an index.
C3_FailedBuildLeavesNoTrace ==
    \A t \in Threads : result[t].status = "ProviderError" =>
        /\ pc[t] = "raised"
        /\ ~modified[t]
        /\ result[t].value = <<>>

\* a forced rebuild over a cached index fails on its second chunk
C3_Witness ==
    \E t \in Threads :
        /\ result[t].status = "ProviderError"
        /\ force_rebuild[t]
        /\ Len(index[t]) >= 1
        /\ _index_cache # None /\ index_file # None

\* C4 as stated: a call that raises the not-found error has made no embedding
\* call, and no index file exists and the cache is unset.
C4_Original ==
    \A t \in Threads : result[t].status = "FileNotFoundError" =>
        /\ "embed" \notin did[t]
        /\ index_file = None
        /\ _index_cache = None

\* C4 amended: a call that raises the not-found error has made no embedding
\* call and has changed neither the index file nor the cache (an index file
\* or cache from before a forced rebuild is still there).
C4_NotFoundLeavesNoTrace ==
    \A t \in Threads : result[t].status = "FileNotFoundError" =>
        /\ pc[t] = "raised"
        /\ "embed" \notin did[t]
        /\ ~modified[t]

\* a forced rebuild without knowledge.txt, over an index file and a cache
C4_Witness ==
    \E t \in Threads :
        /\ result[t].status = "FileNotFoundError"
        /\ force_rebuild[t]
        /\ index_file # None /\ _index_cache # None

\* C5: once a call has returned successfully, a later call with
\* force_rebuild = False only takes the cached index (no embedding call, no
\* read of knowledge.txt, no read or write of the index file) and returns
\* it, and the cached index changes only in a call with force_rebuild = True.
C5_Idempotent ==
    /\ [](\A t \in Threads :
            (InCall(t) /\ later[t] /\ ~force_rebuild[t]) =>
                /\ pc[t] \in {"l101", "returned"}
                /\ did[t] \subseteq {"cachehit"})
    /\ [][\A t \in Threads :
            /\ (pc[t] = "l101" /\ pc'[t] # "l101" /\ later[t] /\ ~force_rebuild[t]) =>
                  (pc'[t] = "returned" /\ Some(result'[t].value) = _index_cache)
            /\ (pc[t] # pc'[t] /\ _index_cache # None /\ _index_cache' # _index_cache)
                  => force_rebuild[t]]_vars

\* C11: after any sequence and interleaving of build_or_load_index calls
\* (no call in progress), whenever the in-memory cache is set the index file
\* exists and holds exactly the records of the cache, in the same order.
C11_CacheMatchesFile ==
    ((\A t \in Threads : pc[t] = "idle") /\ _index_cache # None) =>
        /\ index_file # None
        /\ json_loads(index_file[1]).ok
        /\ chunks_of_raw(json_loads(index_file[1]).value) = _index_cache[1]

-----------------------------------------------------------------------------
(* Properties of the chunker *)

\* the whitespace-split word sequence of chunk j
ChunkWords(j) == split(chunks[j])

\* cw occurs in ws as the contiguous run starting at position p
IsRunAt(ws, cw, p) ==
    /\ p >= 1
    /\ p + Len(cw) - 1 <= Len(ws)
    /\ SubSeq(ws, p, p + Len(cw) - 1) = cw

IsSuffix(s, t) ==
    /\ Len(s) <= Len(t)
    /\ SubSeq(t, Len(t) - Len(s) + 1, Len(t)) = s

\* C7: every chunk produced by _split_text_into_chunks is non-empty and its
\* word sequence is a contiguous sub-sequence, in the original order, of the
\* whitespace-split word sequence of the input.
C7_ChunksAreContiguousRuns ==
    \A j \in 1..Len(chunks) :
        /\ chunks[j] # <<>>
        /\ ChunkWords(j) # <<>>
        /\ \E p \in 1..Len(split(text)) : IsRunAt(split(text), ChunkWords(j), p)

\* a finished run with several chunks, one of them seeded with two overlap
\* words
C7_Witness ==
    /\ cpc = "done"
    /\ Len(chunks) >= 2
    /\ closed # <<>> /\ Len(seed) >= 2
    /\ \E j \in 1..Len(chunks) : Len(ChunkWords(j)) >= 3

\* the assignments of a start position to every chunk at which the chunk
\* occurs in the input word sequence
Placements ==
    {p \in [1..Len(chunks) -> 1..Len(words)] :
        \A j \in 1..Len(chunks) : IsRunAt(words, ChunkWords(j), p[j])}

EndAt(p, j) == p[j] + Len(ChunkWords(j)) - 1

Covers(p) ==
    \A i \in 1..Len(words) : \E j \in 1..Len(chunks) : p[j] <= i /\ i <= EndAt(p, j)

\* number of leading words chunk j shares with its predecessor
LeadingOverlap(p, j) == IF j = 1 THEN 0 ELSE EndAt(p, j - 1) - p[j] + 1

RECURSIVE Rejoin(_, _)
Rejoin(p, j) ==
    IF j = 0 THEN <<>>
    ELSE Rejoin(p, j - 1)
            \o SubSeq(ChunkWords(j), LeadingOverlap(p, j) + 1, Len(ChunkWords(j)))

Reconstructs(p) ==
    /\ \A j \in 1..Len(chunks) : LeadingOverlap(p, j) \in 0..Len(ChunkWords(j))
    /\ Rejoin(p, Len(chunks)) = words

StrictStarts(p) == \A j \in 2..Len(chunks) : p[j - 1] < p[j]
NonDecreasingStarts(p) == \A j \in 2..Len(chunks) : p[j - 1] <= p[j]
StrictEnds(p) == \A j \in 2..Len(chunks) : EndAt(p, j - 1) < EndAt(p, j)

\* C8 as stated: the chunks cover the input, their start positions are
\* strictly increasing, and removing each chunk's leading overlap and joining
\* gives back the input words; an input without words gives no chunk.
C8_Original ==
    cpc = "done" =>
        IF words = <<>> THEN chunks = <<>>
        ELSE \E p \in Placements : StrictStarts(p) /\ Covers(p) /\ Reconstructs(p)

\* C8 amended: as C8, with start positions non-decreasing and end positions
\* strictly increasing (a chunk starts where its predecessor started when
\* the overlap takes the whole closed buffer).
C8_CoverAndReconstruct ==
    cpc = "done" =>
        IF words = <<>> THEN chunks = <<>>
        ELSE \E p \in Placements :
                /\ NonDecreasingStarts(p) /\ StrictEnds(p)
                /\ Covers(p) /\ Reconstructs(p)

\* a finished run where a chunk starts at the same word as its predecessor
C8_Witness ==
    /\ cpc = "done"
    /\ Len(chunks) >= 3
    /\ \E p \in Placements :
          /\ NonDecreasingStarts(p) /\ StrictEnds(p) /\ Covers(p) /\ Reconstructs(p)
          /\ \E j \in 2..Len(chunks) : p[j - 1] = p[j]

RECURSIVE AllChunkWords(_)
AllChunkWords(j) == IF j = 0 THEN <<>> ELSE AllChunkWords(j - 1) \o ChunkWords(j)

\* C9: with overlap = 0 the buffer is cleared at each split, and the chunks
\* are disjoint consecutive runs of the input words: their word sequences
\* concatenated are exactly the input word sequence.
C9_ZeroOverlapPartitions ==
    overlap = 0 =>
        /\ seed = <<>>
        /\ cpc = "done" => AllChunkWords(Len(chunks)) = words

C9_Witness ==
    /\ overlap = 0 /\ cpc = "done" /\ closed # <<>>
    /\ Len(chunks) >= 3
    /\ \E j \in 1..Len(chunks) : Len(ChunkWords(j)) >= 2

\* C10 as stated: after a split with overlap > 0 the seed is a suffix of the
\* closed buffer whose combined length (word length + 1 per word) is less
\* than overlap, and one more word would meet or exceed overlap.
C10_Original ==
    (closed # <<>> /\ overlap > 0) =>
        /\ IsSuffix(seed, closed)
        /\ sum_len_plus_1(seed) < overlap
        /\ \/ seed = closed
           \/ sum_len_plus_1(SubSeq(closed, Len(closed) - Len(seed), Len(closed))) >= overlap

\* C10 amended: after a split with overlap > 0 the seed is the shortest
\* non-empty suffix of the closed buffer whose combined length meets or
\* exceeds overlap, or the whole closed buffer when no suffix does.
C10_SeedReachesOverlap ==
    (closed # <<>> /\ overlap > 0) =>
        /\ IsSuffix(seed, closed)
        /\ seed # <<>>
        /\ sum_len_plus_1(Tail(seed)) < overlap
        /\ seed = closed \/ sum_len_plus_1(seed) >= overlap

\* a split that keeps two of at least three buffered words
C10_Witness ==
    /\ closed # <<>> /\ overlap > 0
    /\ Len(seed) = 2 /\ Len(closed) >= 3
    /\ sum_len_plus_1(seed) >= overlap

====
